---- MODULE Spec2Model ----
(***************************************************************************)
(* Generation orchestration and seed registry of the UPG desktop backend   *)
(* (packages/desktop/src-tauri/src/lib.rs).                                *)
(*                                                                         *)
(* Spec     : two run_sweeper invocations, the second issued after the     *)
(*            first returned, on registry/manifests/generated.json.        *)
(* SpecRead : one run_sweeper invocation and get_seeds readers.            *)
(* SpecRace : two run_sweeper invocations in flight at once.               *)
(* SpecGen  : one generate_project invocation.                             *)
(* SpecOrch : one generate_project or one preview_generation invocation.   *)
(* SpecArgs : either invocation, up to the argument vector it builds, for  *)
(*            every stack and every enrichment configuration.              *)
(***************************************************************************)
EXTENDS Integers, Sequences, FiniteSets, TLC

(***************************************************************************)
(* Bounds of the model.                                                    *)
(***************************************************************************)
\* largest `count` argument of run_sweeper
MaxCount == 3
\* seeds are 1..MaxSeed (u64 in the source; start + count - 1 stays in range)
MaxSeed == 3

\* largest `count` of the two invocations that run at once under SpecRace
RaceMaxCount == 1

\* the invocations of run_sweeper in one behaviour: a first and a second one
Procs == {1, 2}

\* what chrono::Utc::now() can return.  The readings one invocation makes are
\* taken as equal; those of different invocations are unrelated (the wall clock)
Times == {0, 1}

Seeds == 1..MaxSeed

(***************************************************************************)
(* Option<T>                                                               *)
(***************************************************************************)
None == [some |-> FALSE]
Some(x) == [some |-> TRUE, v |-> x]

\* Result<T, String>
Ok(x) == [ok |-> TRUE, v |-> x]
Err(msg) == [ok |-> FALSE, err |-> msg]

(***************************************************************************)
(* serde_json::Value                                                       *)
(***************************************************************************)
JStr(x) == [t |-> "str", s |-> x]
\* an RFC 3339 timestamp string, carrying the clock reading it was made from
JTime(c) == [t |-> "str", time |-> c]
JNum(x) == [t |-> "num", n |-> x]
JBool(x) == [t |-> "bool", b |-> x]
JArr(x) == [t |-> "arr", a |-> x]
JObj(x) == [t |-> "obj", o |-> x]

\* Value::get(key): None unless the value is an object holding the key
JGet(val, key) == IF val.t = "obj" /\ key \in DOMAIN val.o THEN Some(val.o[key]) ELSE None

\* Option<&Value>::and_then(|v| v.as_str())
AsStr(opt) == IF opt.some /\ opt.v.t = "str" /\ "s" \in DOMAIN opt.v THEN Some(opt.v.s) ELSE None

\* Option<&Value>::and_then(|v| v.as_bool())
AsBool(opt) == IF opt.some /\ opt.v.t = "bool" THEN Some(opt.v.b) ELSE None

\* Option<T>::unwrap_or(d)
UnwrapOr(opt, d) == IF opt.some THEN opt.v ELSE d

RECURSIVE SeqsOf(_)
\* every ordering of the elements of a finite set (HashMap iteration order)
SeqsOf(S) == IF S = {} THEN {<<>>} ELSE UNION {{<<x>> \o r : r \in SeqsOf(S \ {x})} : x \in S}

(***************************************************************************)
(* SeedEntry / RegistryData and their serde (camelCase) JSON form          *)
(***************************************************************************)
SeedEntry(seed, stack, files, validated_at, tags) ==
    [seed |-> seed, stack |-> stack, files |-> files, validated_at |-> validated_at, tags |-> tags]

RegistryData(version, generated_at, total_entries, entries) ==
    [version |-> version, generated_at |-> generated_at, total_entries |-> total_entries, entries |-> entries]

\* the registry used when the file is absent or does not parse
EmptyRegistry(now) == RegistryData("1.0.0", now, 0, <<>>)

EntryToJson(e) ==
    JObj([seed |-> JNum(e.seed), stack |-> e.stack,
          files |-> JArr([i \in 1..Len(e.files) |-> JStr(e.files[i])]),
          validatedAt |-> JTime(e.validated_at),
          tags |-> JArr([i \in 1..Len(e.tags) |-> JStr(e.tags[i])])])

\* serde_json::to_string_pretty(&registry)
RegistryToJson(r) ==
    JObj([version |-> JStr(r.version), generatedAt |-> JTime(r.generated_at),
          totalEntries |-> JNum(r.total_entries),
          entries |-> JArr([i \in 1..Len(r.entries) |-> EntryToJson(r.entries[i])])])

IsStrArr(val) == val.t = "arr" /\ \A i \in 1..Len(val.a) : val.a[i].t = "str" /\ "s" \in DOMAIN val.a[i]

IsEntryJson(val) ==
    /\ val.t = "obj"
    /\ {"seed", "stack", "files", "validatedAt", "tags"} \subseteq DOMAIN val.o
    /\ val.o.seed.t = "num" /\ val.o.seed.n >= 0
    /\ IsStrArr(val.o.files)
    /\ val.o.validatedAt.t = "str"
    /\ IsStrArr(val.o.tags)

EntryFromJson(val) ==
    SeedEntry(val.o.seed.n, val.o.stack,
              [i \in 1..Len(val.o.files.a) |-> val.o.files.a[i].s],
              IF "time" \in DOMAIN val.o.validatedAt THEN val.o.validatedAt.time ELSE 0,
              [i \in 1..Len(val.o.tags.a) |-> val.o.tags.a[i].s])

IsRegistryJson(val) ==
    /\ val.t = "obj"
    /\ {"version", "generatedAt", "totalEntries", "entries"} \subseteq DOMAIN val.o
    /\ val.o.version.t = "str"
    /\ val.o.generatedAt.t = "str"
    /\ val.o.totalEntries.t = "num" /\ val.o.totalEntries.n >= 0
    /\ val.o.entries.t = "arr"
    /\ \A i \in 1..Len(val.o.entries.a) : IsEntryJson(val.o.entries.a[i])

\* serde_json::from_str::<RegistryData>(&content): None is the Err case
RegistryFromJson(val) ==
    IF IsRegistryJson(val)
    THEN Some(RegistryData(val.o.version.s,
                           IF "time" \in DOMAIN val.o.generatedAt THEN val.o.generatedAt.time ELSE 0,
                           val.o.totalEntries.n,
                           [i \in 1..Len(val.o.entries.a) |-> EntryFromJson(val.o.entries.a[i])]))
    ELSE None

(***************************************************************************)
(* The registry file                                                       *)
(*   absent     : no file at the path                                      *)
(*   unreadable : the file exists and fs::read_to_string fails on it       *)
(*   text       : readable text; json is the value it parses to, if any    *)
(*                (None: empty, truncated, overlaid or otherwise not JSON) *)
(*   size is the length of the content written (0 for an empty file)       *)
(***************************************************************************)
AbsentFile == [kind |-> "absent"]
UnreadableFile == [kind |-> "unreadable"]
TextFile(json, size) == [kind |-> "text", json |-> json, size |-> size]
EmptyFile == TextFile(None, 0)

\* length of the pretty-printed document, counted in entries (+1 for the envelope)
DocSize(r) == 1 + Len(r.entries)

\* what parsing the file gives a reader that got its text
ParseFile(f) == IF f.kind = "text" /\ f.json.some THEN RegistryFromJson(f.json.v) ELSE None

(***************************************************************************)
(* Captured process output.  A text is known by the two things the code    *)
(* asks of it: the JSON value it parses to (None: not JSON) and its lines. *)
(***************************************************************************)
JNull == [t |-> "null"]
Text(json, lines) == [json |-> json, lines |-> lines]
JsonText(val) == Text(Some(val), <<"{json}">>)

\* Ok((success, stdout, stderr, exit_code)) of execute_cli_internal; spawned = FALSE is its Err
Spawned(success, stdout, stderr, exit_code) ==
    [spawned |-> TRUE, success |-> success, stdout |-> stdout, stderr |-> stderr, exit_code |-> exit_code]
SpawnFailed == [spawned |-> FALSE]

(***************************************************************************)
(* CLIPreviewResponse { success, data: Option<CLIPreviewData>, error }     *)
(***************************************************************************)
IsStrMap(val) == val.t = "obj" /\ \A k \in DOMAIN val.o : val.o[k].t = "str"

IsPreviewDataJson(val) ==
    /\ val.t = "obj"
    /\ {"seed", "id", "stack", "files"} \subseteq DOMAIN val.o
    /\ val.o.seed.t = "num" /\ val.o.seed.n >= 0
    /\ val.o.id.t = "str"
    /\ IsStrMap(val.o.files)

\* an Option<T> field: absent or null is None, anything else must be a T
OptField(val, key) == IF key \in DOMAIN val.o /\ val.o[key].t # "null" THEN Some(val.o[key]) ELSE None

IsPreviewResponseJson(val) ==
    /\ val.t = "obj"
    /\ "success" \in DOMAIN val.o /\ val.o.success.t = "bool"
    /\ OptField(val, "data").some => IsPreviewDataJson(val.o.data)
    /\ OptField(val, "error").some => val.o.error.t = "str"

\* serde_json::from_str::<CLIPreviewResponse>(&stdout): None is the Err case
ParsePreviewResponse(stdout) ==
    IF stdout.json.some /\ IsPreviewResponseJson(stdout.json.v)
    THEN Some([success |-> stdout.json.v.o.success.b,
               data |-> OptField(stdout.json.v, "data"),
               error |-> OptField(stdout.json.v, "error")])
    ELSE None

(***************************************************************************)
(* What the generator can answer to `preview <seed>`                       *)
(***************************************************************************)
StackCli == JObj([language |-> JStr("rust"), framework |-> JNum(7), archetype |-> JStr("cli")])

PreviewData(seed, stack, files) ==
    JObj([seed |-> JNum(seed), id |-> JStr("id"), stack |-> stack, files |-> JObj(files)])

PreviewOkTexts(seed) ==
    { JsonText(JObj([success |-> JBool(TRUE),
                     data |-> PreviewData(seed, StackCli, [a |-> JStr("x")])])),
      JsonText(JObj([success |-> JBool(TRUE),
                     data |-> PreviewData(0, StackCli, [a |-> JStr("x")]), error |-> JNull])) }

PreviewBadTexts ==
    { Text(None, <<"oops">>),
      JsonText(JObj([success |-> JBool(FALSE), error |-> JStr("boom")])),
      JsonText(JObj([success |-> JBool(TRUE)])),
      JsonText(JObj([success |-> JBool(TRUE), data |-> JNull])),
      JsonText(JObj([success |-> JBool(TRUE), data |-> JObj([seed |-> JNum(1)])])),
      JsonText(JObj([data |-> PreviewData(1, StackCli, [a |-> JStr("x")])])) }

NoText == Text(None, <<>>)

PreviewOutcomes(seed) ==
    {SpawnFailed}
      \cup {Spawned(TRUE, t, NoText, Some(0)) : t \in PreviewOkTexts(seed) \cup PreviewBadTexts}
      \cup {Spawned(FALSE, t, Text(None, <<"fatal">>), Some(1)) : t \in PreviewOkTexts(seed) \cup {NoText}}

\* tags: stack.language, stack.framework, stack.archetype, those that are strings
TagOf(stack, key) == LET s == AsStr(JGet(stack, key)) IN IF s.some THEN <<s.v>> ELSE <<>>
ExtractTags(stack) == TagOf(stack, "language") \o TagOf(stack, "framework") \o TagOf(stack, "archetype")

\* ValidatedEntries without the `if success` test on the exit status
ValidatedEntries_AnyExit(seed, out, now) ==
    LET response == ParsePreviewResponse(out.stdout) IN
    IF response.some /\ response.v.success /\ response.v.data.some
    THEN { SeedEntry(seed, response.v.data.v.o.stack, files, now, ExtractTags(response.v.data.v.o.stack)) :
             files \in SeqsOf(DOMAIN response.v.data.v.o.files.o) }
    ELSE {}

\* the entries one preview answer adds to the sweep's list: one per key order of
\* data.files when the answer validates, none otherwise
ValidatedEntries(seed, out, now) ==
    LET response == ParsePreviewResponse(out.stdout) IN
    IF out.success /\ response.some /\ response.v.success /\ response.v.data.some
    THEN { SeedEntry(seed, response.v.data.v.o.stack, files, now, ExtractTags(response.v.data.v.o.stack)) :
             files \in SeqsOf(DOMAIN response.v.data.v.o.files.o) }
    ELSE {}

(***************************************************************************)
(* Registry merge of run_sweeper                                           *)
(***************************************************************************)
SeedsOf(entries) == {entries[i].seed : i \in 1..Len(entries)}

\* MergeEntries without the existing_seeds test
MergeEntries_NoDedup(existing, new) == existing \o new

\* MergeEntries where a new entry replaces the stored one of its seed
MergeEntries_Overwrite(existing, new) ==
    [i \in 1..Len(existing) |->
        IF \E j \in 1..Len(new) : new[j].seed = existing[i].seed
        THEN new[CHOOSE j \in 1..Len(new) : new[j].seed = existing[i].seed]
        ELSE existing[i]]
      \o SelectSeq(new, LAMBDA e : e.seed \notin {existing[i].seed : i \in 1..Len(existing)})

\* for entry in &entries { if !existing_seeds.contains(&entry.seed) { push } }
MergeEntries(existing, new) ==
    existing \o SelectSeq(new, LAMBDA e : e.seed \notin SeedsOf(existing))

\* MergeRegistry adding the number of new entries to the stored total
MergeRegistry_AddToTotal(registry, new, now) ==
    LET merged == MergeEntries(registry.entries, new) IN
    RegistryData(registry.version, now,
                 registry.total_entries + (Len(merged) - Len(registry.entries)), merged)

\* registry.total_entries = registry.entries.len(); registry.generated_at = now
MergeRegistry(registry, new, now) ==
    LET merged == MergeEntries(registry.entries, new) IN
    RegistryData(registry.version, now, Len(merged), merged)

(***************************************************************************)
(* Paths: a string is the sequence of its characters                       *)
(***************************************************************************)
IsPrefix(pre, str) == Len(pre) <= Len(str) /\ SubSeq(str, 1, Len(pre)) = pre

\* str.strip_prefix(pre).unwrap_or(str)
StripPrefix(str, pre) == IF IsPrefix(pre, str) THEN SubSeq(str, Len(pre) + 1, Len(str)) ELSE str

\* Path::is_absolute (Unix): the path starts at the root
IsAbsolute(path) == Len(path) > 0 /\ path[1] = "/"

\* PathBuf::join: an absolute `path` replaces `base`; otherwise it is pushed
\* after a separator, which is added unless `base` is empty or ends with one
Join(base, path) ==
    IF IsAbsolute(path) THEN path
    ELSE IF Len(base) > 0 /\ base[Len(base)] # "/" THEN base \o <<"/">> \o path
    ELSE base \o path

\* ResolveOutputPath that tries the current directory before the home directory
ResolveOutputPath_CwdFirst(output_path, home, cwd) ==
    LET cleaned == StripPrefix(output_path, <<".", "/">>) IN
    IF IsAbsolute(cleaned) THEN Ok(cleaned)
    ELSE IF cwd.some THEN Ok(Join(cwd.v, cleaned))
    ELSE IF home.some THEN Ok(Join(home.v, cleaned))
    ELSE Err("Failed to resolve output path")

\* resolve_output_path; home and cwd are what app.path().home_dir() and
\* std::env::current_dir() give (None: the lookup fails)
ResolveOutputPath(output_path, home, cwd) ==
    LET cleaned == StripPrefix(output_path, <<".", "/">>) IN
    IF IsAbsolute(cleaned) THEN Ok(cleaned)
    ELSE IF home.some THEN Ok(Join(home.v, cleaned))
    ELSE IF cwd.some THEN Ok(Join(cwd.v, cleaned))
    ELSE Err("Failed to resolve output path")

(***************************************************************************)
(* build_cli_args: the argument vector of `upg seed`                       *)
(***************************************************************************)
Flag(name) == [flag |-> name]
StrArg(x) == [str |-> x]
NumArg(x) == [num |-> x]
PathArg(x) == [path |-> x]

\* if let Some(ref x) = config.<field> { push(flag); push(x) }
FlagPair(name, opt) == IF opt.some THEN <<Flag(name), StrArg(opt.v)>> ELSE <<>>

\* if enrich.<field> == Some(false) { push(flag) }
NoEnrichFlag(name, opt) == IF opt = Some(FALSE) THEN <<Flag(name)>> ELSE <<>>

StackArgs(stack) ==
    IF stack.some
    THEN FlagPair("--archetype", stack.v.archetype) \o FlagPair("--language", stack.v.language)
         \o FlagPair("--framework", stack.v.framework) \o FlagPair("--database", stack.v.database)
         \o FlagPair("--packaging", stack.v.packaging) \o FlagPair("--cicd", stack.v.cicd)
    ELSE <<>>

EnrichmentArgs(enrichment) ==
    IF enrichment.some /\ enrichment.v.enabled
    THEN <<Flag("--enrich"), Flag("--enrich-depth"), StrArg(enrichment.v.depth)>>
         \o NoEnrichFlag("--no-enrich-cicd", enrichment.v.cicd)
         \o NoEnrichFlag("--no-enrich-release", enrichment.v.release)
         \o NoEnrichFlag("--no-enrich-logic", enrichment.v.fill_logic)
         \o NoEnrichFlag("--no-enrich-tests", enrichment.v.tests)
         \o NoEnrichFlag("--no-enrich-docker-prod", enrichment.v.docker_prod)
         \o NoEnrichFlag("--no-enrich-linting", enrichment.v.linting)
         \o NoEnrichFlag("--no-enrich-env", enrichment.v.env_files)
         \o NoEnrichFlag("--no-enrich-docs", enrichment.v.docs)
    ELSE <<>>

BuildCliArgs(seed, output_path, stack, enrichment) ==
    <<Flag("seed"), NumArg(seed), Flag("--output"), PathArg(output_path), Flag("--json")>>
      \o StackArgs(stack) \o EnrichmentArgs(enrichment)

(***************************************************************************)
(* list_files_recursive.  A directory is a function from entry names to    *)
(* nodes; a node is a file, a directory, or something that is neither.     *)
(***************************************************************************)
FileNode == [type |-> "file"]
OtherNode == [type |-> "other"]
DirNode(entries) == [type |-> "dir", entries |-> entries]

\* ListFilesRecursive that does not descend into subdirectories
ListFilesRecursive_Shallow(node) ==
    IF node.type # "dir" THEN {<<>>}
    ELSE {[i \in 1..Len(order) |-> <<order[i]>>] :
            order \in SeqsOf({name \in DOMAIN node.entries : node.entries[name].type = "file"})}

RECURSIVE ListFilesRecursive(_)
\* the listings fs::read_dir's order of entries can give: files by name,
\* the files of a subdirectory as "<name>/<subfile>"
ListFilesRecursive(node) ==
    IF node.type # "dir" THEN {<<>>}
    ELSE LET Of(name) ==
                 IF node.entries[name].type = "file" THEN {<<<<name>>>>}
                 ELSE IF node.entries[name].type = "dir"
                 THEN {[i \in 1..Len(sub) |-> <<name, "/">> \o sub[i]] :
                          sub \in ListFilesRecursive(node.entries[name])}
                 ELSE {<<>>}
             RECURSIVE Cat(_)
             Cat(order) == IF order = <<>> THEN {<<>>}
                           ELSE {h \o t : h \in Of(Head(order)), t \in Cat(Tail(order))}
         IN  UNION {Cat(order) : order \in SeqsOf(DOMAIN node.entries)}

(***************************************************************************)
(* generate_project: the reading of the generator's answer                 *)
(***************************************************************************)
\* format!("Generated {} files for seed {} in {}ms", ..)
GeneratedMessage(n, seed, ms) == [fmt |-> "Generated {} files for seed {} in {}ms", n |-> n, seed |-> seed, ms |-> ms]
\* format!("CLI exited with code {:?}", exit_code)
ExitCodeMessage(exit_code) == [fmt |-> "CLI exited with code {:?}", code |-> exit_code]
\* a message that is a given string
Msg(str) == [fmt |-> "{}", str |-> str]

GenerationResult(success, message, files_generated, output_path, duration_ms) ==
    [success |-> success, message |-> message, files_generated |-> files_generated,
     output_path |-> output_path, duration_ms |-> duration_ms]

\* response.get("files_generated").and_then(as_array): the elements that are strings
FilesGenerated(response) ==
    LET files == JGet(response, "files_generated") IN
    IF files.some /\ files.v.t = "arr"
    THEN LET strs == SelectSeq(files.v.a, LAMBDA f : f.t = "str") IN
         [i \in 1..Len(strs) |-> strs[i].s]
    ELSE <<>>

\* text.lines().last().unwrap_or("Generation failed")
LastLine(text) == IF text.lines = <<>> THEN "Generation failed" ELSE text.lines[Len(text.lines)]

\* String::is_empty: only the empty string has no line
IsEmptyText(text) == text.lines = <<>>

\* InterpretGeneration whose failure result keeps the payload's file list
InterpretGeneration_KeepFiles(seed, resolved, out, listing, duration_ms) ==
    IF out.stdout.json.some
    THEN GenerationResult(UnwrapOr(AsBool(JGet(out.stdout.json.v, "success")), FALSE),
                          Msg(UnwrapOr(AsStr(JGet(out.stdout.json.v, "error")), "Generation failed")),
                          FilesGenerated(out.stdout.json.v), resolved, duration_ms)
    ELSE GenerationResult(out.success, ExitCodeMessage(out.exit_code), listing, resolved, duration_ms)

\* InterpretGeneration where a payload without a boolean `success` falls back
\* to the exit status and the files on disk
InterpretGeneration_LenientSuccess(seed, resolved, out, listing, duration_ms) ==
    IF out.stdout.json.some /\ AsBool(JGet(out.stdout.json.v, "success")).some
    THEN IF AsBool(JGet(out.stdout.json.v, "success")).v
         THEN GenerationResult(TRUE,
                               GeneratedMessage(Len(FilesGenerated(out.stdout.json.v)), seed, duration_ms),
                               FilesGenerated(out.stdout.json.v), resolved, duration_ms)
         ELSE GenerationResult(FALSE,
                               Msg(UnwrapOr(AsStr(JGet(out.stdout.json.v, "error")), "Generation failed")),
                               <<>>, resolved, duration_ms)
    ELSE IF out.success
    THEN GenerationResult(TRUE, GeneratedMessage(Len(listing), seed, duration_ms),
                          listing, resolved, duration_ms)
    ELSE GenerationResult(FALSE, ExitCodeMessage(out.exit_code), <<>>, resolved, duration_ms)

\* InterpretGeneration with the exit status read before the payload
InterpretGeneration_ExitFirst(seed, resolved, out, listing, duration_ms) ==
    IF out.success /\ out.stdout.json.some
           /\ UnwrapOr(AsBool(JGet(out.stdout.json.v, "success")), FALSE)
    THEN GenerationResult(TRUE, GeneratedMessage(Len(FilesGenerated(out.stdout.json.v)), seed, duration_ms),
                          FilesGenerated(out.stdout.json.v), resolved, duration_ms)
    ELSE IF out.success
    THEN GenerationResult(TRUE, GeneratedMessage(Len(listing), seed, duration_ms),
                          listing, resolved, duration_ms)
    ELSE GenerationResult(FALSE, ExitCodeMessage(out.exit_code), <<>>, resolved, duration_ms)

\* lines 358-444: the result built from the process outcome; `listing` is what
\* list_files_recursive gives for the output directory (<<>> when it is absent)
InterpretGeneration(seed, resolved, out, listing, duration_ms) ==
    IF out.stdout.json.some
    THEN LET response == out.stdout.json.v
             cli_success == UnwrapOr(AsBool(JGet(response, "success")), FALSE)
             files_generated == FilesGenerated(response)
         IN  IF cli_success
             THEN GenerationResult(TRUE, GeneratedMessage(Len(files_generated), seed, duration_ms),
                                   files_generated, resolved, duration_ms)
             ELSE GenerationResult(FALSE,
                                   Msg(UnwrapOr(AsStr(JGet(response, "error")), "Generation failed")),
                                   <<>>, resolved, duration_ms)
    ELSE IF out.success
    THEN GenerationResult(TRUE, GeneratedMessage(Len(listing), seed, duration_ms),
                          listing, resolved, duration_ms)
    ELSE GenerationResult(FALSE,
                          IF ~IsEmptyText(out.stderr) THEN Msg(LastLine(out.stderr))
                          ELSE IF ~IsEmptyText(out.stdout) THEN Msg(LastLine(out.stdout))
                          ELSE ExitCodeMessage(out.exit_code),
                          <<>>, resolved, duration_ms)

(***************************************************************************)
(* preview_generation: its argument vector and the reading of the answer   *)
(***************************************************************************)
\* lines 789-814: preview <seed>, the stack constraints, the enrichment flags
PreviewCliArgs(seed, stack, enrichment) ==
    <<Flag("preview"), NumArg(seed)>>
      \o (IF stack.some
          THEN FlagPair("--archetype", stack.v.archetype) \o FlagPair("--language", stack.v.language)
               \o FlagPair("--framework", stack.v.framework)
          ELSE <<>>)
      \o (IF enrichment.some /\ enrichment.v.enabled
          THEN <<Flag("--enrich"), Flag("--enrich-depth"), StrArg(enrichment.v.depth)>>
          ELSE <<>>)

PreviewResult(files, stack, seed) == [files |-> files, stack |-> stack, seed |-> seed]

\* lines 824-846: what preview_generation returns for a finished process
InterpretPreview(out) ==
    LET response == ParsePreviewResponse(out.stdout) IN
    IF ~out.success THEN Err("Preview failed")
    ELSE IF ~response.some THEN Err("Failed to parse CLI output")
    ELSE IF response.v.success
    THEN IF response.v.data.some
         THEN LET data == response.v.data.v.o IN
              Ok(PreviewResult([k \in DOMAIN data.files.o |-> data.files.o[k].s],
                               Some(data.stack), Some(data.seed.n)))
         ELSE Err("Missing data in successful response")
    ELSE Err(UnwrapOr(AsStr(response.v.error), "Unknown error"))

(***************************************************************************)
(* State                                                                   *)
(***************************************************************************)
VARIABLES
    file,          \* content of registry/manifests/generated.json
    dirExists,     \* whether registry/manifests exists
    sw,            \* per invocation: the locals of run_sweeper
    seedsResult,   \* what the last get_seeds call read and returned
    gen,           \* the locals of the generate_project invocation
    env,           \* what the host gives: home directory, current directory, CLI
    disk,          \* the node at the resolved output path, None when nothing is there
    prev           \* the locals of the preview_generation invocation

vars == <<file, dirExists, sw, seedsResult, gen, env, disk, prev>>

\* an invocation not yet made
IdleCall ==
    [pc |-> "idle", count |-> 0, start_seed |-> None, start |-> 1, now |-> 0, i |-> 0,
     entries |-> <<>>, loaded |-> None, registry |-> None, result |-> None, trace |-> <<>>]

\* run_sweeper entered: registry dir, CLI command and home dir resolved,
\* entries = Vec::new(), start = start_seed.unwrap_or(1)
EnteredCall(count, start_seed, now) ==
    [IdleCall EXCEPT !.pc = "preview", !.count = count, !.start_seed = start_seed,
                     !.start = UnwrapOr(start_seed, 1), !.now = now]

\* the arguments an invocation can be given (start_seed = Some(1) is left out:
\* it runs as None does)
SweepArgs(maxCount) ==
    { a \in [count : 0..maxCount, start_seed : {None} \cup {Some(s) : s \in Seeds \ {1}}] :
        UnwrapOr(a.start_seed, 1) + a.count <= MaxSeed + 1 }

\* what an invocation has done so far, in order: a preview of a seed (with
\* whether the answer validated), the registry load, the open and the write
Event(ev, seed, valid) == [ev |-> ev, seed |-> seed, valid |-> valid]
Step(ev) == Event(ev, 0, FALSE)

\* the answer validates: exit status 0, stdout parses, success = true, data present
PreviewSucceeded(out) ==
    /\ out.spawned
    /\ out.success
    /\ ParsePreviewResponse(out.stdout).some
    /\ ParsePreviewResponse(out.stdout).v.success
    /\ ParsePreviewResponse(out.stdout).v.data.some

\* SeedAt stepping by two
SeedAt_Skip(start, i) == start + 2 * i

\* let seed = start + i as u64
SeedAt(start, i) == start + i

\* registry files found at start-up
OldEntry(seed) == SeedEntry(seed, StackCli, <<"old">>, 0, <<"rust">>)

\* two entries, and the same with a stored total that disagrees with them
OldRegistry == RegistryData("1.0.0", 0, 2, <<OldEntry(2), OldEntry(1)>>)
InitRegistries == { OldRegistry, [OldRegistry EXCEPT !.total_entries = 1] }

DocFile(r) == TextFile(Some(RegistryToJson(r)), DocSize(r))

\* JSON that is no RegistryData: totalEntries and generatedAt are missing
ForeignJsonFile == TextFile(Some(JObj([version |-> JStr("1.0.0"), entries |-> JArr(<<>>)])), 1)

\* text that is not JSON
GarbageFile == TextFile(None, 1)

InitFiles ==
    { AbsentFile, UnreadableFile, ForeignJsonFile } \cup { DocFile(r) : r \in InitRegistries }

\* no generate_project invocation
IdleGen ==
    [pc |-> "idle", request |-> None, resolved |-> None, command |-> None, all_args |-> <<>>,
     working_dir |-> None, out |-> None, duration_ms |-> 0, result |-> None, trace |-> <<>>]

\* the host of the sweeper specifications
HostEnv == [home |-> Some(<<"/", "h">>), cwd |-> Some(<<"/", "w">>), cli |-> Some([cmd |-> "upg", base_args |-> <<>>])]

\* no preview_generation invocation
IdlePrev ==
    [pc |-> "idle", request |-> None, command |-> None, all_args |-> <<>>,
     working_dir |-> None, out |-> None, result |-> None, trace |-> <<>>]

NoGeneration ==
    /\ gen = IdleGen
    /\ env = HostEnv
    /\ disk = None
    /\ prev = IdlePrev

Init ==
    /\ file \in InitFiles
    /\ dirExists = (file.kind # "absent")
    /\ sw = [p \in Procs |-> IdleCall]
    /\ seedsResult = None
    /\ NoGeneration

(***************************************************************************)
(* run_sweeper                                                             *)
(***************************************************************************)
\* the invocation returns: its locals are dropped; what stays is its arguments,
\* its result and, when it wrote the registry, the registry it had loaded and
\* the document it wrote
Returned(call, result, wrote) ==
    [IdleCall EXCEPT !.pc = "done", !.count = call.count, !.start_seed = call.start_seed,
                     !.result = Some(result),
                     !.loaded = IF wrote.some THEN call.loaded ELSE None,
                     !.registry = wrote]

Return(p, result) == sw' = [sw EXCEPT ![p] = Returned(sw[p], result, None)]

\* invocation p is made once the invocations before it have returned
SweepCall(p) ==
    /\ sw[p].pc = "idle"
    /\ \A q \in Procs : q < p => sw[q].pc = "done"
    /\ \E a \in SweepArgs(MaxCount), now \in Times :
         \/ sw' = [sw EXCEPT ![p] = EnteredCall(a.count, a.start_seed, now)]
         \/ sw' = [sw EXCEPT ![p] = Returned(EnteredCall(a.count, a.start_seed, now),
                                             Err("environment"), None)]
    /\ UNCHANGED <<file, dirExists, seedsResult, gen, env, disk, prev>>

\* the Err of execute_cli_internal: its message names the arguments of the
\* command that could not be run
SpawnError(args) == [ok |-> FALSE, err |-> "Failed to execute CLI", args |-> args]

\* SpawnFailure that saves the entries validated so far before it returns
SpawnFailure_Flush(p, seed) ==
    /\ Return(p, SpawnError(<<"preview", seed>>))
    /\ dirExists' = TRUE
    /\ file' = IF file.kind = "unreadable" THEN file
               ELSE DocFile(MergeRegistry(UnwrapOr(ParseFile(file), EmptyRegistry(sw[p].now)),
                                          sw[p].entries, sw[p].now))

\* execute_cli_internal(..)? on an Err: run_sweeper returns it at once
SpawnFailure(p, seed) ==
    /\ Return(p, SpawnError(<<"preview", seed>>))
    /\ UNCHANGED <<file, dirExists>>

\* one iteration of `for i in 0..count`
SweepPreview(p) ==
    /\ sw[p].pc = "preview"
    /\ sw[p].i < sw[p].count
    /\ LET seed == SeedAt(sw[p].start, sw[p].i) IN
       \E out \in PreviewOutcomes(seed) :
         \/ /\ ~out.spawned
            /\ SpawnFailure(p, seed)
         \/ /\ out.spawned
            /\ ValidatedEntries(seed, out, sw[p].now) = {}
            /\ sw' = [sw EXCEPT ![p].i = @ + 1,
                                ![p].trace = Append(@, Event("preview", seed, PreviewSucceeded(out)))]
            /\ UNCHANGED <<file, dirExists>>
         \/ /\ out.spawned
            /\ \E entry \in ValidatedEntries(seed, out, sw[p].now) :
                 sw' = [sw EXCEPT ![p].i = @ + 1,
                                  ![p].entries = Append(@, entry),
                                  ![p].trace = Append(@, Event("preview", seed, PreviewSucceeded(out)))]
            /\ UNCHANGED <<file, dirExists>>
    /\ UNCHANGED <<seedsResult, gen, env, disk, prev>>

\* after the loop: fs::create_dir_all(registry/manifests)
SweepMkdir(p) ==
    /\ sw[p].pc = "preview"
    /\ sw[p].i = sw[p].count
    /\ \/ /\ dirExists' = TRUE
          /\ sw' = [sw EXCEPT ![p].pc = "load"]
       \/ /\ ~dirExists
          /\ dirExists' = dirExists
          /\ Return(p, Err("Failed to create registry directory"))
    /\ UNCHANGED <<file, seedsResult, gen, env, disk, prev>>

\* registry_path.exists(), fs::read_to_string, serde_json::from_str(..).unwrap_or(empty)
LoadRegistry(f, now) ==
    CASE f.kind = "absent" -> Ok(EmptyRegistry(now))
      [] f.kind = "unreadable" -> Err("Failed to read registry")
      [] OTHER -> Ok(UnwrapOr(ParseFile(f), EmptyRegistry(now)))

SweepLoad(p) ==
    /\ sw[p].pc = "load"
    /\ LET got == LoadRegistry(file, sw[p].now) IN
       IF got.ok
       THEN sw' = [sw EXCEPT ![p].pc = "write_open",
                             ![p].loaded = Some(got.v),
                             ![p].trace = Append(@, Step("load"))]
       ELSE Return(p, got)
    /\ UNCHANGED <<file, dirExists, seedsResult, gen, env, disk, prev>>

\* MergeBase reading the file again at the time of the merge
MergeBase_Reload(call, f) == UnwrapOr(ParseFile(f), EmptyRegistry(call.now))

\* the registry the new entries are merged into: the one loaded earlier,
\* whatever the file holds by now
MergeBase(call, f) == call.loaded.v

\* the merge, then fs::write opening the file: File::create truncates it
SweepWriteOpen(p) ==
    /\ sw[p].pc = "write_open"
    /\ \/ /\ file' = EmptyFile
          /\ sw' = [sw EXCEPT ![p].pc = "write_data",
                              ![p].registry = Some(MergeRegistry(MergeBase(sw[p], file), sw[p].entries, sw[p].now)),
                              ![p].trace = Append(@, Step("open"))]
       \/ /\ file' = file
          /\ Return(p, Err("Failed to write registry"))
    /\ UNCHANGED <<dirExists, seedsResult, gen, env, disk, prev>>

\* the bytes of `mine` written at offset 0 over what the file holds: longer
\* content already there keeps its tail and the result is not JSON
Overlay(cur, mine) ==
    LET whole == DocFile(mine)
        mixed == TextFile(None, cur.size)
    IN  IF cur.size = 0 \/ cur.size < DocSize(mine) THEN {whole}
        ELSE IF cur.size > DocSize(mine) THEN {mixed}
        ELSE {whole, mixed}

\* fs::write writing the document (write_all)
SweepWriteData(p) ==
    /\ sw[p].pc = "write_data"
    /\ \/ /\ file' \in Overlay(file, sw[p].registry.v)
          /\ sw' = [sw EXCEPT ![p].pc = "written",
                              ![p].trace = Append(@, Step("write"))]
       \/ /\ file' = file
          /\ Return(p, Err("Failed to write registry"))
    /\ UNCHANGED <<dirExists, seedsResult, gen, env, disk, prev>>

\* Ok(entries)
SweepReturn(p) ==
    /\ sw[p].pc = "written"
    /\ sw' = [sw EXCEPT ![p] = Returned(sw[p], Ok(sw[p].entries), sw[p].registry)]
    /\ UNCHANGED <<file, dirExists, seedsResult, gen, env, disk, prev>>

(***************************************************************************)
(* get_seeds                                                               *)
(***************************************************************************)
GetSeedsResult(f) ==
    CASE f.kind = "absent" -> Ok(<<>>)
      [] f.kind = "unreadable" -> Err("Failed to read registry")
      [] OTHER -> IF ParseFile(f).some THEN Ok(ParseFile(f).v.entries)
                  ELSE Err("Failed to parse registry")

GetSeeds ==
    /\ seedsResult' = Some([read |-> file, result |-> GetSeedsResult(file)])
    /\ UNCHANGED <<file, dirExists, sw, gen, env, disk, prev>>

(***************************************************************************)
(* generate_project                                                        *)
(***************************************************************************)
TechStackConfig(archetype, language, framework, database, packaging, cicd) ==
    [archetype |-> archetype, language |-> language, framework |-> framework,
     database |-> database, packaging |-> packaging, cicd |-> cicd]

EnrichmentConfig(enabled, depth, cicd, release, fill_logic, tests, docker_prod, linting, env_files, docs) ==
    [enabled |-> enabled, depth |-> depth, cicd |-> cicd, release |-> release,
     fill_logic |-> fill_logic, tests |-> tests, docker_prod |-> docker_prod,
     linting |-> linting, env_files |-> env_files, docs |-> docs]

\* mode is GenerationMode::Procedural, the only variant
GenerationRequest(seed, output_path, stack, enrichment) ==
    [seed |-> seed, output_path |-> output_path, stack |-> stack, enrichment |-> enrichment]

\* "./o", "o", "/o", "././o", ".//o" and the empty path
OutputPaths ==
    { <<".", "/", "o">>, <<"o">>, <<"/", "o">>, <<".", "/", ".", "/", "o">>,
      <<".", "/", "/", "o">>, <<>> }

GenRequests ==
    { GenerationRequest(seed, output_path, c.stack, c.enrichment) :
        seed \in {None, Some(7)},
        output_path \in OutputPaths,
        c \in { [stack |-> None, enrichment |-> None],
                [stack |-> Some(TechStackConfig(Some("backend"), Some("rust"), None, None, None, Some("github"))),
                 enrichment |-> Some(EnrichmentConfig(TRUE, "standard", Some(FALSE), Some(TRUE), None, None,
                                                      None, None, None, Some(FALSE)))] } }

\* home_dir() and current_dir() succeed or fail; get_cli_command gives node and
\* the script (debug build), the bundled binary (release build), or fails
HostEnvs ==
    [home : {None, Some(<<"/", "h">>)},
     cwd : {None, Some(<<"/", "w">>)},
     cli : {None, Some([cmd |-> "node", base_args |-> <<PathArg(<<"/", "upg.js">>)>>]),
            Some([cmd |-> "upg", base_args |-> <<>>])}]

FileA == <<"a">>
FileB == <<"b">>

\* stdout documents that are JSON
GenJsonValues ==
    { JObj([success |-> JBool(TRUE), files_generated |-> JArr(<<JStr(FileA), JStr(FileB)>>)]),
      JObj([success |-> JBool(TRUE), files_generated |-> JArr(<<JStr(FileB), JStr(FileA)>>),
            message |-> JStr("done")]),
      JObj([success |-> JBool(TRUE), files_generated |-> JArr(<<JStr(FileB), JNum(7), JStr(FileB)>>)]),
      JObj([success |-> JBool(TRUE), files_generated |-> JStr(FileA)]),
      JObj([success |-> JBool(TRUE)]),
      JObj([success |-> JBool(FALSE), error |-> JStr("boom"), files_generated |-> JArr(<<JStr(FileA)>>)]),
      JObj([success |-> JBool(FALSE), error |-> JNum(7)]),
      JObj([success |-> JBool(FALSE)]),
      JObj([success |-> JStr("true"), files_generated |-> JArr(<<JStr(FileA)>>)]),
      JObj([files_generated |-> JArr(<<JStr(FileA)>>)]),
      JNum(7) }

\* output that is not JSON, as the lines str::lines() gives
PlainTexts == { NoText, Text(None, <<"e1", "e2">>), Text(None, <<"e1", "">>), Text(None, <<"">>) }

\* (success, exit_code) of a finished process: code 0, another code, killed by a signal
ExitStatuses == { <<TRUE, Some(0)>>, <<FALSE, Some(1)>>, <<FALSE, None>> }

GenOutcomes ==
    {Spawned(x[1], JsonText(val), stderr, x[2]) :
        val \in GenJsonValues, stderr \in {NoText, Text(None, <<"warn">>)},
        x \in {<<TRUE, Some(0)>>, <<FALSE, Some(1)>>}}
      \cup {Spawned(x[1], stdout, stderr, x[2]) :
              stdout \in PlainTexts, stderr \in PlainTexts, x \in ExitStatuses}

\* what the generator can leave at the output path
DiskStates ==
    { None, Some(FileNode), Some(DirNode(<<>>)),
      Some(DirNode([a |-> FileNode, x |-> OtherNode])),
      Some(DirNode([b |-> FileNode, s |-> DirNode([a |-> FileNode, t |-> DirNode([b |-> FileNode])])])) }

\* readings of start.elapsed().as_millis()
Durations == {5}

GenStep(name) == gen.trace \o <<name>>

GenReturn(result) == gen' = [gen EXCEPT !.pc = "done", !.result = Some(result)]

\* GenSeed with the output path resolved before the seed is looked at
GenSeed_AfterResolve ==
    /\ gen.pc = "called"
    /\ LET got == ResolveOutputPath(gen.request.v.output_path, env.home, env.cwd) IN
       IF gen.request.v.seed.some
       THEN gen' = [gen EXCEPT !.pc = "resolve", !.trace = GenStep("seed")]
       ELSE IF got.ok
       THEN gen' = [gen EXCEPT !.pc = "done", !.resolved = Some(got.v), !.trace = GenStep("resolve"),
                               !.result = Some(Err("Seed is required for procedural generation"))]
       ELSE GenReturn(got)
    /\ UNCHANGED <<file, dirExists, sw, seedsResult, env, disk, prev>>

\* request.seed.ok_or(..)?
GenSeed ==
    /\ gen.pc = "called"
    /\ IF gen.request.v.seed.some
       THEN gen' = [gen EXCEPT !.pc = "resolve", !.trace = GenStep("seed")]
       ELSE GenReturn(Err("Seed is required for procedural generation"))
    /\ UNCHANGED <<file, dirExists, sw, seedsResult, env, disk, prev>>

\* resolve_output_path(&request.output_path, &app)?
GenResolve ==
    /\ gen.pc = "resolve"
    /\ LET got == ResolveOutputPath(gen.request.v.output_path, env.home, env.cwd) IN
       IF got.ok
       THEN gen' = [gen EXCEPT !.pc = "command", !.resolved = Some(got.v), !.trace = GenStep("resolve")]
       ELSE GenReturn(got)
    /\ UNCHANGED <<file, dirExists, sw, seedsResult, env, disk, prev>>

\* get_cli_command(&app)?, build_cli_args, base_args.extend(cli_args)
GenCommand ==
    /\ gen.pc = "command"
    /\ IF env.cli.some
       THEN gen' = [gen EXCEPT !.pc = "working_dir",
                               !.command = Some(env.cli.v.cmd),
                               !.all_args = env.cli.v.base_args
                                              \o BuildCliArgs(gen.request.v.seed.v, gen.resolved.v,
                                                              gen.request.v.stack, gen.request.v.enrichment),
                               !.trace = GenStep("command")]
       ELSE GenReturn(Err("CLI not found"))
    /\ UNCHANGED <<file, dirExists, sw, seedsResult, env, disk, prev>>

\* app.path().home_dir().map_err(..)?
GenWorkingDir ==
    /\ gen.pc = "working_dir"
    /\ IF env.home.some
       THEN gen' = [gen EXCEPT !.pc = "spawn", !.working_dir = env.home, !.trace = GenStep("working_dir")]
       ELSE GenReturn(Err("home directory unknown"))
    /\ UNCHANGED <<file, dirExists, sw, seedsResult, env, disk, prev>>

\* execute_cli_internal(&cmd, all_args, &working_dir)?; the generator leaves
\* what it leaves at the output path; then start.elapsed()
GenSpawn ==
    /\ gen.pc = "spawn"
    /\ \/ /\ GenReturn(Err("Failed to execute CLI"))
          /\ disk' = disk
       \/ \E out \in GenOutcomes, ms \in Durations :
            /\ gen' = [gen EXCEPT !.pc = "interpret", !.out = Some(out), !.duration_ms = ms,
                                  !.trace = GenStep("spawn")]
            /\ disk' \in DiskStates
    /\ UNCHANGED <<file, dirExists, sw, seedsResult, env, prev>>

\* resolved_output.exists() and list_files_recursive(&resolved_output)
Listings(d) == IF d.some THEN ListFilesRecursive(d.v) ELSE {<<>>}

\* lines 358-444: Ok(GenerationResult { .. })
GenInterpret ==
    /\ gen.pc = "interpret"
    /\ \E listing \in Listings(disk) :
         GenReturn(Ok(InterpretGeneration(gen.request.v.seed.v, gen.resolved.v, gen.out.v,
                                          listing, gen.duration_ms)))
    /\ UNCHANGED <<file, dirExists, sw, seedsResult, env, disk, prev>>

(***************************************************************************)
(* preview_generation                                                      *)
(***************************************************************************)
PrevStep(name) == prev.trace \o <<name>>

PrevReturn(result) == prev' = [prev EXCEPT !.pc = "done", !.result = Some(result)]

\* request.seed.ok_or(..)?
PrevSeed ==
    /\ prev.pc = "called"
    /\ IF prev.request.v.seed.some
       THEN prev' = [prev EXCEPT !.pc = "command", !.trace = PrevStep("seed")]
       ELSE PrevReturn(Err("Seed is required for procedural preview"))
    /\ UNCHANGED <<file, dirExists, sw, seedsResult, gen, env, disk>>

\* get_cli_command(&app)?, then the preview arguments (789-814; they are
\* appended to base_args at line 820)
PrevCommand ==
    /\ prev.pc = "command"
    /\ IF env.cli.some
       THEN prev' = [prev EXCEPT !.pc = "working_dir",
                                 !.command = Some(env.cli.v.cmd),
                                 !.all_args = env.cli.v.base_args
                                                \o PreviewCliArgs(prev.request.v.seed.v, prev.request.v.stack,
                                                                  prev.request.v.enrichment),
                                 !.trace = PrevStep("command")]
       ELSE PrevReturn(Err("CLI not found"))
    /\ UNCHANGED <<file, dirExists, sw, seedsResult, gen, env, disk>>

\* app.path().home_dir().map_err(..)?
PrevWorkingDir ==
    /\ prev.pc = "working_dir"
    /\ IF env.home.some
       THEN prev' = [prev EXCEPT !.pc = "spawn", !.working_dir = env.home, !.trace = PrevStep("working_dir")]
       ELSE PrevReturn(Err("home directory unknown"))
    /\ UNCHANGED <<file, dirExists, sw, seedsResult, gen, env, disk>>

\* execute_cli_internal(&cmd, base_args, &working_dir)?
PrevSpawn ==
    /\ prev.pc = "spawn"
    /\ \E out \in PreviewOutcomes(prev.request.v.seed.v) :
         IF out.spawned
         THEN prev' = [prev EXCEPT !.pc = "interpret", !.out = Some(out), !.trace = PrevStep("spawn")]
         ELSE PrevReturn(Err("Failed to execute CLI"))
    /\ UNCHANGED <<file, dirExists, sw, seedsResult, gen, env, disk>>

\* lines 824-846
PrevInterpret ==
    /\ prev.pc = "interpret"
    /\ PrevReturn(InterpretPreview(prev.out.v))
    /\ UNCHANGED <<file, dirExists, sw, seedsResult, gen, env, disk>>

(***************************************************************************)
(* Specifications                                                          *)
(***************************************************************************)
Sweep(p) ==
    \/ SweepPreview(p)
    \/ SweepMkdir(p)
    \/ SweepLoad(p)
    \/ SweepWriteOpen(p)
    \/ SweepWriteData(p)
    \/ SweepReturn(p)

Next == \E p \in Procs : SweepCall(p) \/ Sweep(p)

Spec == Init /\ [][Next]_vars

\* one invocation and get_seeds calls at any time
NextRead == SweepCall(1) \/ Sweep(1) \/ GetSeeds

InitRead ==
    /\ file \in InitFiles \cup {GarbageFile}
    /\ dirExists = (file.kind # "absent")
    /\ sw = [p \in Procs |-> IdleCall]
    /\ seedsResult = None
    /\ NoGeneration

SpecRead == InitRead /\ [][NextRead]_vars

\* both invocations have been made and run at once
InitRace ==
    /\ file \in {AbsentFile, DocFile(OldRegistry)}
    /\ dirExists = (file.kind # "absent")
    /\ sw \in [Procs -> {EnteredCall(a.count, a.start_seed, now) :
                            a \in SweepArgs(RaceMaxCount), now \in Times}]
    /\ seedsResult = None
    /\ NoGeneration

NextRace == \E p \in Procs : Sweep(p)

SpecRace == InitRace /\ [][NextRace]_vars

\* one generate_project invocation, from its entry to its return
InitGen ==
    /\ file = AbsentFile
    /\ dirExists = FALSE
    /\ sw = [p \in Procs |-> IdleCall]
    /\ seedsResult = None
    /\ gen \in {[IdleGen EXCEPT !.pc = "called", !.request = Some(r)] : r \in GenRequests}
    /\ env \in HostEnvs
    /\ disk \in {None, Some(DirNode([a |-> FileNode]))}
    /\ prev = IdlePrev

NextGen ==
    \/ GenSeed
    \/ GenResolve
    \/ GenCommand
    \/ GenWorkingDir
    \/ GenSpawn
    \/ GenInterpret

SpecGen == InitGen /\ [][NextGen]_vars

NextPrev ==
    \/ PrevSeed
    \/ PrevCommand
    \/ PrevWorkingDir
    \/ PrevSpawn
    \/ PrevInterpret

\* the request handed to generate_project or to preview_generation
Invoked(requests) ==
    \/ /\ gen \in {[IdleGen EXCEPT !.pc = "called", !.request = Some(r)] : r \in requests}
       /\ prev = IdlePrev
    \/ /\ gen = IdleGen
       /\ prev \in {[IdlePrev EXCEPT !.pc = "called", !.request = Some(r)] : r \in requests}

\* one orchestration call: generate_project or preview_generation
InitOrch ==
    /\ file = AbsentFile
    /\ dirExists = FALSE
    /\ sw = [p \in Procs |-> IdleCall]
    /\ seedsResult = None
    /\ Invoked(GenRequests)
    /\ env \in HostEnvs
    /\ disk \in {None, Some(DirNode([a |-> FileNode]))}

NextOrch == NextGen \/ NextPrev

SpecOrch == InitOrch /\ [][NextOrch]_vars

\* every TechStackConfig by which fields are present, and no stack at all
StackConfigs ==
    {None} \cup
    { Some(TechStackConfig(archetype, language, framework, database, packaging, cicd)) :
        archetype \in {None, Some("backend")}, language \in {None, Some("rust")},
        framework \in {None, Some("axum")}, database \in {None, Some("postgres")},
        packaging \in {None, Some("docker")}, cicd \in {None, Some("github")} }

OptBools == {None, Some(TRUE), Some(FALSE)}

\* every EnrichmentConfig by its switch, two depths and its eight overrides,
\* and no enrichment at all
EnrichmentConfigs ==
    {None} \cup
    { Some(EnrichmentConfig(enabled, depth, cicd, release, fill_logic, tests,
                            docker_prod, linting, env_files, docs)) :
        enabled \in BOOLEAN, depth \in {"minimal", "full"},
        cicd \in OptBools, release \in OptBools, fill_logic \in OptBools, tests \in OptBools,
        docker_prod \in OptBools, linting \in OptBools, env_files \in OptBools, docs \in OptBools }

ArgRequests ==
    { GenerationRequest(Some(7), <<"/", "o">>, stack, None) : stack \in StackConfigs }
      \cup { GenerationRequest(Some(7), <<"/", "o">>, None, enrichment) : enrichment \in EnrichmentConfigs }

\* one orchestration call up to its argument vector
InitArgs ==
    /\ file = AbsentFile
    /\ dirExists = FALSE
    /\ sw = [p \in Procs |-> IdleCall]
    /\ seedsResult = None
    /\ Invoked(ArgRequests)
    /\ env = HostEnv
    /\ disk = None

NextArgs ==
    \/ GenSeed
    \/ GenResolve
    \/ GenCommand
    \/ PrevSeed
    \/ PrevCommand

SpecArgs == InitArgs /\ [][NextArgs]_vars

(***************************************************************************)
(* Properties of the registry under Spec                                   *)
(***************************************************************************)
NoDuplicateSeed(entries) ==
    \A i, j \in 1..Len(entries) : entries[i].seed = entries[j].seed => i = j

\* the invocations that have written their document and not yet returned
Written == {p \in Procs : sw[p].pc = "written"}

\* the registry a reader of the file gets now (the file parses)
Persisted == ParseFile(file).v

\* C1: whatever run_sweeper calls were made on a registry file that was absent,
\* unparsable or free of duplicates, the persisted registry holds at most one
\* entry per seed.
C1_OneEntryPerSeed ==
    ParseFile(file).some => NoDuplicateSeed(Persisted.entries)

\* a second invocation has written after validating a seed the first one stored
C1_Witness ==
    /\ sw[1].pc = "done" /\ sw[1].result.v.ok
    /\ sw[2].pc = "written"
    /\ ParseFile(file).some
    /\ SeedsOf(sw[2].entries) \cap SeedsOf(sw[1].result.v.v) # {}

\* C2: in every document run_sweeper has written, total_entries is the number
\* of entries, whatever total_entries the loaded document stored.
C2_TotalIsLength ==
    \A p \in Written :
        /\ ParseFile(file).some
        /\ Persisted.total_entries = Len(Persisted.entries)

\* a document was written over one whose stored total disagreed with its entries
C2_Witness ==
    \E p \in Written :
        /\ sw[p].loaded.v.total_entries # Len(sw[p].loaded.v.entries)
        /\ Len(sw[p].entries) > 0

\* C3: first write wins.  The entries loaded stay where they were, unchanged,
\* in the document written, and every entry after them has a seed that was
\* absent from the loaded registry.
C3_FirstWriteWins ==
    \A p \in Written :
        LET old == sw[p].loaded.v.entries IN
        /\ ParseFile(file).some
        /\ Len(Persisted.entries) >= Len(old)
        /\ \A i \in 1..Len(old) : Persisted.entries[i] = old[i]
        /\ \A i \in (Len(old) + 1)..Len(Persisted.entries) :
               Persisted.entries[i].seed \notin SeedsOf(old)

\* the sweep validated a seed the registry held, with an entry that differs
\* from the stored one
C3_Witness ==
    \E p \in Written :
        \E i \in 1..Len(sw[p].entries), j \in 1..Len(sw[p].loaded.v.entries) :
            /\ sw[p].entries[i].seed = sw[p].loaded.v.entries[j].seed
            /\ sw[p].entries[i] # sw[p].loaded.v.entries[j]

\* the seeds of the range whose preview validated, in the order previewed
ValidatedSeeds(trace) ==
    LET hits == SelectSeq(trace, LAMBDA e : e.ev = "preview" /\ e.valid) IN
    [i \in 1..Len(hits) |-> hits[i].seed]

Rerun ==
    /\ sw[1].pc = "done" /\ sw[1].result.v.ok
    /\ sw[2].pc = "written"
    /\ sw[2].count = sw[1].count /\ sw[2].start_seed = sw[1].start_seed
    /\ SeedsOf(sw[2].entries) = SeedsOf(sw[1].result.v.v)
    /\ sw[2].loaded = sw[1].registry

\* C5: running the same sweep again with the same outcomes leaves entries and
\* total_entries as the first run wrote them.
C5_SweepIdempotent ==
    Rerun =>
        /\ ParseFile(file).some
        /\ Persisted.entries = sw[1].registry.v.entries
        /\ Persisted.total_entries = sw[1].registry.v.total_entries

\* a rerun that validated seeds again, at another time than the first run
C5_Witness ==
    /\ Rerun
    /\ sw[1].result.v.v # <<>>
    /\ sw[2].entries # sw[1].result.v.v
    /\ Persisted.generated_at # sw[1].registry.v.generated_at

\* the events of an invocation that previewed `i` seeds from `start` and is at pc
PreviewSeeds(trace) ==
    LET ps == SelectSeq(trace, LAMBDA e : e.ev = "preview") IN [k \in 1..Len(ps) |-> ps[k].seed]
StepsOf(trace) ==
    LET st == SelectSeq(trace, LAMBDA e : e.ev # "preview") IN [k \in 1..Len(st) |-> st[k].ev]
StepsAt(pc) ==
    CASE pc = "write_open" -> <<"load">>
      [] pc = "write_data" -> <<"load", "open">>
      [] pc = "written" -> <<"load", "open", "write">>
      [] OTHER -> <<>>

\* C7: a sweep previews the seeds start_seed (1 when not given), start_seed+1,
\* ... once each, in ascending order; it loads, merges and writes the registry
\* once, after the last preview, and nothing is written between two previews.
C7_PreviewsThenOneWrite ==
    \A p \in Procs :
        sw[p].pc \notin {"idle", "done"} =>
            LET t == sw[p].trace IN
            /\ PreviewSeeds(t) = [k \in 1..sw[p].i |-> UnwrapOr(sw[p].start_seed, 1) + (k - 1)]
            /\ StepsOf(t) = StepsAt(sw[p].pc)
            /\ \A k \in 1..Len(t) : t[k].ev = "preview" <=> k <= sw[p].i
            /\ sw[p].pc # "preview" => sw[p].i = sw[p].count

\* a sweep of three seeds from the default start has written
C7_Witness ==
    \E p \in Written :
        /\ sw[p].start_seed = None
        /\ sw[p].count = 3
        /\ PreviewSeeds(sw[p].trace) = <<1, 2, 3>>

\* invocation p returns out of its preview loop in this step
LeavesLoop(p) == sw[p].pc = "preview" /\ sw[p].i < sw[p].count /\ sw'[p].pc = "done"

\* C20: when the generator cannot be spawned for a seed of the sweep,
\* run_sweeper returns an error at once and previews no further seed; the
\* registry file is as it was before the call and no registry directory is
\* made: the entries validated earlier in the sweep are dropped unwritten
C20_SpawnFailureAborts ==
    [][\A p \in Procs :
         /\ LeavesLoop(p) =>
               /\ sw'[p].result.v = SpawnError(<<"preview", SeedAt(sw[p].start, sw[p].i)>>)
               /\ sw'[p].registry = None
               /\ file' = file
               /\ dirExists' = dirExists
         /\ (sw[p].pc \in {"idle", "preview"} /\ sw'[p].pc = "preview") =>
               (file' = file /\ dirExists' = dirExists)
         /\ sw[p].pc = "done" => sw'[p] = sw[p]]_vars

\* the first sweep, started at seed 1 on a registry that holds seeds 2 and 1,
\* has returned the spawn error of its second preview; the file is that registry
C20_Witness ==
    /\ sw[1].pc = "done"
    /\ sw[1].start_seed = None
    /\ sw[1].result.v = SpawnError(<<"preview", 2>>)
    /\ sw[1].registry = None
    /\ sw[2].pc = "idle"
    /\ file = DocFile(OldRegistry)

(***************************************************************************)
(* Properties of loading and of readers, under SpecRead                    *)
(***************************************************************************)
\* the file is absent or its text is no registry document
AbsentOrUnparsable(f) == f.kind = "absent" \/ (f.kind = "text" /\ ~ParseFile(f).some)

\* C6: every operation that loads the registry takes an absent or unparsable
\* file for an empty registry of version 1.0.0 and returns no error for it:
\* run_sweeper's load step (whose write then replaces the content) and
\* get_seeds.
C6_CorruptionIsNotFatal ==
    /\ \A p \in Procs :
          sw[p].pc = "write_open" /\ AbsentOrUnparsable(file) =>
              /\ sw[p].loaded.v.version = "1.0.0"
              /\ sw[p].loaded.v.entries = <<>>
              /\ sw[p].loaded.v.total_entries = 0
    /\ \A p \in Written : ParseFile(file).some
    /\ seedsResult.some /\ AbsentOrUnparsable(seedsResult.v.read) =>
          seedsResult.v.result = Ok(<<>>)

\* C9: the registry is persisted atomically: what a reader finds at the path
\* is a complete document (the one before or the one after a write), never
\* the file emptied by a write in progress.
C9_AtomicPersist ==
    seedsResult.some => seedsResult.v.read # EmptyFile

(***************************************************************************)
(* Properties of two invocations at once, under SpecRace                   *)
(***************************************************************************)
\* the invocation wrote its document and returns (or has returned) Ok(entries)
Succeeded(p) == sw[p].pc = "written" \/ (sw[p].pc = "done" /\ sw[p].result.v.ok)

ValidatedBy(p) == IF sw[p].pc = "written" THEN sw[p].entries ELSE sw[p].result.v.v

\* the seeds p validated that were new to the registry it loaded and that q
\* did not validate
OnlyFrom(p, q) ==
    (SeedsOf(ValidatedBy(p)) \ SeedsOf(sw[p].loaded.v.entries)) \ SeedsOf(ValidatedBy(q))

\* C8: two invocations that both loaded the registry before either wrote it
\* lose updates: once both have succeeded, a registry that parses is the
\* document of one of them, the last writer, and holds none of the entries
\* only the other one validated.
C8_LostUpdate ==
    \A p, q \in Procs :
        (/\ p # q
         /\ Succeeded(p) /\ Succeeded(q)
         /\ sw[p].loaded = sw[q].loaded
         /\ ParseFile(file).some)
        => \/ /\ Persisted = sw[q].registry.v
              /\ OnlyFrom(p, q) \cap SeedsOf(Persisted.entries) = {}
           \/ /\ Persisted = sw[p].registry.v
              /\ OnlyFrom(q, p) \cap SeedsOf(Persisted.entries) = {}

\* both invocations returned Ok, and the registry lacks a seed one of them
\* validated and returned
C8_Witness ==
    \E p, q \in Procs :
        /\ p # q
        /\ sw[p].pc = "done" /\ sw[p].result.v.ok
        /\ sw[q].pc = "done" /\ sw[q].result.v.ok
        /\ sw[p].loaded = sw[q].loaded
        /\ ParseFile(file).some
        /\ Persisted = sw[q].registry.v
        /\ OnlyFrom(p, q) # {}
        /\ OnlyFrom(q, p) # {}

(***************************************************************************)
(* Properties of generate_project under SpecGen                            *)
(***************************************************************************)
\* the invocation has returned Ok(GenerationResult)
Generated == gen.pc = "done" /\ gen.result.v.ok

\* the generator's stdout was JSON with a boolean `success` of true
PayloadSaysSuccess ==
    /\ gen.out.some
    /\ gen.out.v.stdout.json.some
    /\ JGet(gen.out.v.stdout.json.v, "success") = Some(JBool(TRUE))

\* the payload carries a `files_generated` list of strings
PayloadListsFiles ==
    LET files == JGet(gen.out.v.stdout.json.v, "files_generated") IN
    /\ files.some
    /\ files.v.t = "arr"
    /\ \A i \in 1..Len(files.v.a) : files.v.a[i].t = "str"

\* C10: when the generator prints a JSON payload whose `success` is true,
\* generate_project returns success = true, files_generated is the list the
\* payload carried (same strings, same order) and output_path is the resolved
\* absolute path, whatever the exit status and whatever is on disk
C10_JsonSuccess ==
    (Generated /\ PayloadSaysSuccess) =>
        LET result == gen.result.v.v
            payload == gen.out.v.stdout.json.v
        IN  /\ result.success = TRUE
            /\ PayloadListsFiles =>
                  /\ Len(result.files_generated) = Len(payload.o.files_generated.a)
                  /\ \A i \in 1..Len(result.files_generated) :
                        result.files_generated[i] = payload.o.files_generated.a[i].s
            /\ result.output_path = gen.resolved.v
            /\ result.output_path
                  = ResolveOutputPath(gen.request.v.output_path, env.home, env.cwd).v
            /\ IsAbsolute(result.output_path)

\* a success payload listing b then a, from a process that exited with a
\* failure status, while the output directory holds other files
C10_Witness ==
    /\ Generated
    /\ PayloadSaysSuccess
    /\ PayloadListsFiles
    /\ ~gen.out.v.success
    /\ gen.result.v.v.files_generated = <<FileB, FileA>>
    /\ disk.some /\ disk.v.type = "dir" /\ DOMAIN disk.v.entries = {"a", "x"}
    /\ gen.request.v.output_path = <<".", "/", "o">>
    /\ gen.result.v.v.output_path = <<"/", "h", "/", "o">>

\* C11: when the generator prints a JSON success payload that carries a
\* `message` string, the result's message is that string; a message is
\* synthesized only when the payload has none
C11_EmbeddedMessage ==
    (Generated /\ PayloadSaysSuccess) =>
        LET result == gen.result.v.v
            message == AsStr(JGet(gen.out.v.stdout.json.v, "message"))
        IN  IF message.some
            THEN result.message = Msg(message.v)
            ELSE result.message
                   = GeneratedMessage(Len(result.files_generated), gen.request.v.seed.v, gen.duration_ms)

\* the generator's stdout was JSON with a boolean `success` of false
PayloadSaysFailure ==
    /\ gen.out.some
    /\ gen.out.v.stdout.json.some
    /\ JGet(gen.out.v.stdout.json.v, "success") = Some(JBool(FALSE))

\* C12: when the generator prints a JSON payload whose `success` is false,
\* generate_project returns Ok with success = false, the payload's `error`
\* string as message and no files, whatever the exit status and whatever
\* `files_generated` the payload lists
C12_JsonFailure ==
    (gen.pc = "done" /\ PayloadSaysFailure) =>
        /\ gen.result.v.ok
        /\ gen.result.v.v.success = FALSE
        /\ gen.result.v.v.files_generated = <<>>
        /\ LET error == JGet(gen.out.v.stdout.json.v, "error") IN
           (error.some /\ error.v.t = "str") => gen.result.v.v.message = Msg(error.v.s)

\* a failure payload with error "boom" that lists a file, from a process that
\* exited with status 0
C12_Witness ==
    /\ gen.pc = "done"
    /\ PayloadSaysFailure
    /\ gen.out.v.success
    /\ JGet(gen.out.v.stdout.json.v, "files_generated") = Some(JArr(<<JStr(FileA)>>))
    /\ gen.result.v.ok
    /\ gen.result.v.v.message = Msg("boom")

RECURSIVE RegularFiles(_)
\* the regular files beneath a node, as paths relative to it
RegularFiles(node) ==
    IF node.type # "dir" THEN {}
    ELSE UNION { IF node.entries[name].type = "file" THEN {<<name>>}
                 ELSE {<<name, "/">> \o sub : sub \in RegularFiles(node.entries[name])} :
                 name \in DOMAIN node.entries }

\* stdout was not JSON and the process exited with status 0
PlainExitSuccess == gen.out.some /\ ~gen.out.v.stdout.json.some /\ gen.out.v.success

PlainExitFailure == gen.out.some /\ ~gen.out.v.stdout.json.some /\ ~gen.out.v.success

\* the last line of a text that is not empty, None when there is none
LastNonEmptyLine(text) ==
    LET idx == {i \in 1..Len(text.lines) : text.lines[i] # ""} IN
    IF idx = {} THEN None ELSE Some(text.lines[CHOOSE i \in idx : \A j \in idx : j <= i])

\* C14: when stdout is not JSON and the exit status says failure, the message
\* is the last non-empty line of stderr (of stdout when stderr is empty), also
\* for streams that end with blank lines; it is made from the exit code only
\* when both streams are empty
C14_LastNonEmptyLine ==
    (gen.pc = "done" /\ PlainExitFailure) =>
        LET out == gen.out.v
            message == gen.result.v.v.message
        IN  IF ~IsEmptyText(out.stderr)
            THEN LastNonEmptyLine(out.stderr).some => message = Msg(LastNonEmptyLine(out.stderr).v)
            ELSE IF ~IsEmptyText(out.stdout)
            THEN LastNonEmptyLine(out.stdout).some => message = Msg(LastNonEmptyLine(out.stdout).v)
            ELSE message = ExitCodeMessage(out.exit_code)

\* generate_project is past its call of resolve_output_path
PathResolutionDone == gen.request.some /\ gen.request.v.seed.some /\ gen.pc \notin {"called", "resolve"}

\* the requested path without one leading "./"
CleanedPath ==
    LET path == gen.request.v.output_path IN
    IF Len(path) >= 2 /\ path[1] = "." /\ path[2] = "/" THEN SubSeq(path, 3, Len(path)) ELSE path

\* C19: resolve_output_path strips one leading "./"; an absolute path is
\* returned unchanged; otherwise the path is joined to the home directory when
\* there is one, else to the current directory; it fails only when both
\* lookups fail.  Resolving its result again returns the result unchanged.
C19_ResolvePrecedence ==
    PathResolutionDone =>
        /\ IF CleanedPath # <<>> /\ CleanedPath[1] = "/"
           THEN gen.resolved = Some(CleanedPath)
           ELSE IF env.home.some
           THEN gen.resolved = Some(env.home.v \o <<"/">> \o CleanedPath)
           ELSE IF env.cwd.some
           THEN gen.resolved = Some(env.cwd.v \o <<"/">> \o CleanedPath)
           ELSE /\ gen.resolved = None
                /\ gen.pc = "done"
                /\ gen.result = Some(Err("Failed to resolve output path"))
        /\ gen.resolved.some =>
              ResolveOutputPath(gen.resolved.v, env.home, env.cwd) = Ok(gen.resolved.v)

\* "././o" resolved on a host that knows both the home and the current
\* directory: one "./" is stripped and the rest joined to the home directory
C19_Witness ==
    /\ PathResolutionDone
    /\ gen.request.v.output_path = <<".", "/", ".", "/", "o">>
    /\ env.home.some /\ env.cwd.some
    /\ gen.resolved = Some(<<"/", "h", "/", ".", "/", "o">>)

\* generate_project has returned after a generator whose stdout was JSON
JsonAnswered == gen.pc = "done" /\ gen.out.some /\ gen.out.v.stdout.json.some

\* C21: whenever stdout parses as a JSON value the JSON tier decides: the
\* result is what the payload alone gives, whatever the exit status, stderr
\* and the files on disk are; success is true exactly when the value has a
\* boolean field `success` equal to true, and a value without one (a bare
\* number, an object without `success` or with a non-boolean one) gives
\* success = false and no files even when the process exited with status 0
C21_JsonTierFirst ==
    JsonAnswered =>
        LET result == gen.result.v.v
            payload == gen.out.v.stdout.json.v
            saysTrue == /\ payload.t = "obj"
                        /\ "success" \in DOMAIN payload.o
                        /\ payload.o.success = JBool(TRUE)
        IN  /\ gen.result.v.ok
            /\ result.success = saysTrue
            /\ ~saysTrue => result.files_generated = <<>>
            /\ result = InterpretGeneration(gen.request.v.seed.v, gen.resolved.v,
                                            Spawned(TRUE, gen.out.v.stdout, NoText, Some(0)),
                                            <<>>, gen.duration_ms)

\* the generator printed the bare number 7 and exited with status 0, leaving a
\* directory with files: the call reports a failure with no files
C21_Witness ==
    /\ JsonAnswered
    /\ gen.out.v.stdout.json.v = JNum(7)
    /\ gen.out.v.success
    /\ disk.some /\ RegularFiles(disk.v) # {}
    /\ gen.result.v.ok
    /\ gen.result.v.v.success = FALSE
    /\ gen.result.v.v.files_generated = <<>>

(***************************************************************************)
(* Properties of both orchestration calls under SpecOrch                   *)
(***************************************************************************)
\* C15: stdout that is not JSON never makes an orchestration call fail by
\* itself: once the process was spawned, generate_project returns Ok whatever
\* it printed, and preview_generation returns Ok when the process exited with
\* status 0 although its stdout did not parse
C15_ParseFaultAbsorbed ==
    /\ (gen.pc = "done" /\ gen.out.some /\ ~gen.out.v.stdout.json.some) => gen.result.v.ok
    /\ (prev.pc = "done" /\ prev.out.some /\ prev.out.v.success
          /\ ~prev.out.v.stdout.json.some) => prev.result.v.ok

\* what a call without a seed has done: nothing but return the validation error
Rejected(call, msg) ==
    /\ call.pc \in {"called", "done"}
    /\ call.trace = <<>>
    /\ call.command = None
    /\ call.all_args = <<>>
    /\ call.working_dir = None
    /\ call.out = None
    /\ call.pc = "done" => call.result = Some(Err(msg))

\* C16: a request without a seed is rejected with the validation error before
\* the output path is resolved, the command is looked up or a process is
\* spawned, by generate_project and by preview_generation
C16_SeedlessRejected ==
    /\ (gen.request.some /\ ~gen.request.v.seed.some) =>
          Rejected(gen, "Seed is required for procedural generation") /\ gen.resolved = None
    /\ (prev.request.some /\ ~prev.request.v.seed.some) =>
          Rejected(prev, "Seed is required for procedural preview")

\* a seedless preview request has returned, on a host where everything a
\* preview needs is there
C16_Witness ==
    /\ prev.request.some
    /\ ~prev.request.v.seed.some
    /\ prev.pc = "done"
    /\ prev.result = Some(Err("Seed is required for procedural preview"))
    /\ env.cli.some /\ env.home.some

(***************************************************************************)
(* Properties of the argument vectors under SpecArgs                       *)
(***************************************************************************)
StackFields == <<"archetype", "language", "framework", "database", "packaging", "cicd">>

StackFlag ==
    [archetype |-> "--archetype", language |-> "--language", framework |-> "--framework",
     database |-> "--database", packaging |-> "--packaging", cicd |-> "--cicd"]

\* the fields a stack has, in the fixed order
PresentFields(stack) == SelectSeq(StackFields, LAMBDA f : stack.some /\ stack.v[f].some)

\* args holds one `--<field> <value>` pair per present field, in the fixed
\* order, and no other stack flag
StackPairsOk(args, stack) ==
    LET at == {i \in 1..Len(args) : \E f \in DOMAIN StackFlag : args[i] = Flag(StackFlag[f])}
        rank(i) == Cardinality({j \in at : j <= i})
        present == PresentFields(stack)
    IN  /\ Cardinality(at) = Len(present)
        /\ \A i \in at :
              /\ args[i] = Flag(StackFlag[present[rank(i)]])
              /\ i < Len(args)
              /\ args[i + 1] = StrArg(stack.v[present[rank(i)]].v)

\* C17: for every combination of present and absent stack fields, the
\* argument vector of seed generation and that of preview hold exactly one
\* `--<field> <value>` pair per present field among archetype, language,
\* framework, database, packaging, cicd, in that order, and none for an absent field
C17_StackPairs ==
    /\ gen.command.some => StackPairsOk(gen.all_args, gen.request.v.stack)
    /\ prev.command.some => StackPairsOk(prev.all_args, prev.request.v.stack)

NoEnrichFlags ==
    [cicd |-> "--no-enrich-cicd", release |-> "--no-enrich-release", fill_logic |-> "--no-enrich-logic",
     tests |-> "--no-enrich-tests", docker_prod |-> "--no-enrich-docker-prod",
     linting |-> "--no-enrich-linting", env_files |-> "--no-enrich-env", docs |-> "--no-enrich-docs"]

Occurrences(args, arg) == Cardinality({i \in 1..Len(args) : args[i] = arg})

\* args holds the enrichment flags the configuration asks for and no other
EnrichFlagsOk(args, enrichment) ==
    IF enrichment.some /\ enrichment.v.enabled
    THEN /\ Occurrences(args, Flag("--enrich")) = 1
         /\ Occurrences(args, Flag("--enrich-depth")) = 1
         /\ \E i \in 1..(Len(args) - 1) :
               args[i] = Flag("--enrich-depth") /\ args[i + 1] = StrArg(enrichment.v.depth)
         /\ \A k \in DOMAIN NoEnrichFlags :
               Occurrences(args, Flag(NoEnrichFlags[k]))
                 = IF enrichment.v[k] = Some(FALSE) THEN 1 ELSE 0
    ELSE /\ Occurrences(args, Flag("--enrich")) = 0
         /\ Occurrences(args, Flag("--enrich-depth")) = 0
         /\ \A k \in DOMAIN NoEnrichFlags : Occurrences(args, Flag(NoEnrichFlags[k])) = 0

\* C18: for every EnrichmentConfig, in the argument vector of seed generation
\* and in that of preview: no enrichment flag when enabled is false; with
\* enabled true, `--enrich` and `--enrich-depth <depth>`, and each
\* `--no-enrich-*` flag once when its sub-flag is explicitly false and not at
\* all when it is unset or true
C18_EnrichmentFlags ==
    /\ gen.command.some => EnrichFlagsOk(gen.all_args, gen.request.v.enrichment)
    /\ prev.command.some => EnrichFlagsOk(prev.all_args, prev.request.v.enrichment)

====
